---- MODULE Spec2Model ----
(***************************************************************************)
(* Model of PyCharmMiscProject/generate.py: the synthetic oral-lesion      *)
(* dataset generator.  The script is one linear run: seed the two random   *)
(* sources, build three tables column by column, left-join them twice,     *)
(* drop rows with nulls if there are any, and write one CSV file.          *)
(*                                                                         *)
(* A cell of a table is <<v>> (a value) or << >> (NaN / missing).          *)
(* A float is kept in fixed point: a float x is the integer                *)
(* x * 100 * WordRange.  A datetime is kept as its number of days after    *)
(* datetime(2024, 1, 1).                                                   *)
(*                                                                         *)
(* The bit generators of numpy and of the random module are library code;  *)
(* each is modelled as a deterministic generator with RngStates positions  *)
(* and RngIncrements streams whose seeding function is unknown: the state  *)
(* a seed leads to is fixed at Init (np_key, py_key) and ranges over       *)
(* every generator state.                                                  *)
(***************************************************************************)
EXTENDS Integers, Sequences, FiniteSets, TLC

VARIABLES pc, run, np_key, py_key, np_state, py_state,
          df_patients, df_lesions, df_followups, df_merged,
          missing_count, csv_file, prev_file, prev_tables

vars == <<pc, run, np_key, py_key, np_state, py_state,
          df_patients, df_lesions, df_followups, df_merged,
          missing_count, csv_file, prev_file, prev_tables>>

(***************************************************************************)
(* Bounds of the model.  The row counts are the script's 500 / 800 / 2000  *)
(* scaled down, in the same order n_patients < n_lesions < n_followups.    *)
(***************************************************************************)
n_patients == 2
n_lesions == 3
n_followups == 4
RngStates == 8
RngIncrements == 3
WordRange == 512
MaxEntropy == 1
MaxRuns == 2

(***************************************************************************)
(* Program constants.                                                      *)
(***************************************************************************)
NP_SEED == 42
PY_SEED == 42

Range(s) == {s[i] : i \in 1..Len(s)}

RECURSIVE SeqSum(_)
SeqSum(s) == IF s = << >> THEN 0 ELSE Head(s) + SeqSum(Tail(s))

RECURSIVE Flatten(_)
Flatten(ss) == IF ss = << >> THEN << >> ELSE Head(ss) \o Flatten(Tail(ss))

\* The members of keep among 1..n, in increasing order.
SelectIdx(n, keep) ==
    LET RECURSIVE go(_)
        go(i) == IF i > n THEN << >>
                 ELSE (IF i \in keep THEN <<i>> ELSE << >>) \o go(i + 1)
    IN go(1)

(***************************************************************************)
(* The random sources.                                                     *)
(***************************************************************************)
\* A generator state s is a position s % RngStates and the increment
\* s \div RngStates of its stream; a step adds the increment to the position.
NumStates == RngStates * RngIncrements

\* seed(x): the generator state the library derives from seed x.
init_by_seed(x, key) == (x + key) % NumStates

\* One step of the generator.
next_state(s) ==
    (s \div RngStates) * RngStates
        + (((s % RngStates) + (s \div RngStates)) % RngStates)

RECURSIVE skip(_, _)
skip(s, k) == IF k = 0 THEN s ELSE skip(next_state(s), k - 1)

\* The generator's output word in 0..WordRange-1 for the i-th draw from
\* state s (i = 1 is the first draw); the extremes 0 and WordRange-1 are
\* both outputs of some state.
word(s, i) ==
    ((skip(s, i - 1) % RngStates) * (WordRange - 1)) \div (RngStates - 1)

\* An integer in low..high-1 from one output word (numpy: high exclusive).
randint_np(low, high, w) == low + (w * (high - low)) \div WordRange

\* np.random.randint(low, high, size) drawn from state s.
np_randint_closed(low, high, size, s) ==
    [i \in 1..size |-> randint_np(low, high + 1, word(s, i))]
np_randint(low, high, size, s) ==
    [i \in 1..size |-> randint_np(low, high, word(s, i))]

\* random.randint(a, b): a <= N <= b, both ends included.
py_randint(a, b, w) == a + (w * (b - a + 1)) \div WordRange

\* np.random.uniform(low, high, size); low100 and high100 are the bounds
\* times 100, the result is in fixed point (units of 1/(100*WordRange)).
np_uniform(low100, high100, size, s) ==
    [i \in 1..size |-> low100 * WordRange + (high100 - low100) * word(s, i)]

\* Index (1-based) of the category an output word selects under the
\* percent weights p: the first i whose cumulative weight exceeds w.
RECURSIVE cdf_index(_, _, _, _)
cdf_index(p, w, i, cum) ==
    IF i >= Len(p) \/ w * 100 < (cum + p[i]) * WordRange THEN i
    ELSE cdf_index(p, w, i + 1, cum + p[i])

\* np.random.choice(a, size, p=p).
np_choice_p(a, p, size, s) ==
    [i \in 1..size |-> a[cdf_index(p, word(s, i), 1, 0)]]

\* np.random.choice(a, size): uniform, with replacement; numpy draws
\* randint(0, len(a), size) and indexes a (0-based) with it.
np_choice(a, size, s) ==
    [i \in 1..size |-> a[randint_np(0, Len(a), word(s, i)) + 1]]

(***************************************************************************)
(* Formatting of the primary keys.                                         *)
(***************************************************************************)
Digit == <<"0", "1", "2", "3", "4", "5", "6", "7", "8", "9">>

\* str(i) of an integer.
RECURSIVE str(_)
str(i) == IF i < 0 THEN "-" \o str(-i)
          ELSE IF i < 10 THEN Digit[i + 1]
          ELSE str(i \div 10) \o Digit[(i % 10) + 1]

\* s.zfill(width): zeros on the left up to width, after a leading sign;
\* a string already that long is returned as it is.
RECURSIVE zfill(_, _)
zfill(s, width) ==
    IF Len(s) >= width THEN s
    ELSE IF Len(s) > 0 /\ SubSeq(s, 1, 1) \in {"-", "+"}
         THEN SubSeq(s, 1, 1) \o zfill(SubSeq(s, 2, Len(s)), width - 1)
         ELSE zfill("0" \o s, width)

\* range(1, n + 1)
range_from_0(n) == [i \in 1..n |-> i - 1]
range_from_1(n) == [i \in 1..n |-> i]

\* [f'P{str(i).zfill(4)}' for i in range(1, n + 1)]
key_list(prefix, width, n) ==
    LET r == range_from_1(n)
    IN [k \in 1..Len(r) |-> prefix \o zfill(str(r[k]), width)]

(***************************************************************************)
(* Tables.  A DataFrame has its column names in order, its index labels    *)
(* and one row per label: a function from column name to cell.             *)
(***************************************************************************)
NoFrame == [columns |-> << >>, index |-> << >>, data |-> << >>]

\* pd.DataFrame(dict): columns in the dict's order, a RangeIndex, and a
\* ValueError ("raised") when the arrays are not all of the same length.
\* The dict is given as its keys and its values, both in the dict's order.
DataFrame(keys, values) ==
    LET n == Len(values[1])
        pos(c) == CHOOSE k \in 1..Len(keys) : keys[k] = c
    IN IF \E k \in 1..Len(values) : Len(values[k]) # n
       THEN [raised |-> TRUE, df |-> NoFrame]
       ELSE [raised |-> FALSE,
             df |-> [columns |-> keys,
                     index |-> [i \in 1..n |-> i - 1],
                     data |-> [i \in 1..n |->
                                 [c \in Range(keys) |-> <<values[pos(c)][i]>>]]]]

\* len(df)
len(df) == Len(df.data)

\* df[c]: the values of a column (of a column without NaN).
column(df, c) == [i \in 1..len(df) |-> df.data[i][c][1]]

patient_columns ==
    <<"patient_id", "age", "gender", "location", "ethnicity",
      "betel_chewing", "tobacco_use", "alcohol_consumption",
      "family_history_cancer", "oral_hygiene_score", "rural_area">>

lesion_columns_clash ==
    <<"lesion_id", "patient_id", "detection_date", "location",
      "initial_size_mm", "color", "texture", "pain_level",
      "ai_confidence_score", "lesion_type_detected">>
lesion_columns ==
    <<"lesion_id", "patient_id", "detection_date", "location_oral_cavity",
      "initial_size_mm", "color", "texture", "pain_level",
      "ai_confidence_score", "lesion_type_detected">>

followup_columns ==
    <<"followup_id", "lesion_id", "followup_date", "size_mm",
      "growth_rate_mm_per_month", "color_change", "texture_change",
      "pain_change", "clinician_reviewed", "biopsy_recommended">>

\* The patient keys and the ten sampled patient columns; each sampled
\* column takes n_patients draws from numpy's generator, in the dict's
\* order, starting in state s.
patient_ids_short == key_list("P", 4, n_patients - 1)
patient_ids == key_list("P", 4, n_patients)

patient_data(s) ==
    LET n == n_patients
        at(k) == skip(s, k * n)
    IN <<
        \* patient_id
        patient_ids,
        \* age
        np_randint(18, 80, n, at(0)),
        \* gender
        np_choice_p(<<"Male", "Female">>, <<60, 40>>, n, at(1)),
        \* location
        np_choice_p(<<"Sabah", "Sarawak", "Other">>,
                                 <<45, 45, 10>>, n, at(2)),
        \* ethnicity
        np_choice_p(<<"Indigenous", "Chinese", "Malay", "Other">>,
                                  <<50, 20, 20, 10>>, n, at(3)),
        \* betel_chewing
        np_choice_p(<<0, 1>>, <<40, 60>>, n, at(4)),
        \* tobacco_use
        np_choice_p(<<0, 1>>, <<50, 50>>, n, at(5)),
        \* alcohol_consumption
        np_choice_p(<<"None", "Occasional", "Regular", "Heavy">>,
                        <<30, 30, 25, 15>>, n, at(6)),
        \* family_history_cancer
        np_choice_p(<<0, 1>>, <<75, 25>>, n, at(7)),
        \* oral_hygiene_score
        np_randint(1, 11, n, at(8)),
        \* rural_area
        np_choice_p(<<0, 1>>, <<25, 75>>, n, at(9))>>

\* The foreign key of the lesion table.
lesion_patient_id_fresh(patients, s) ==
    [i \in 1..n_lesions |->
        "P" \o zfill(str(randint_np(1, n_lesions + 1, word(s, i))), 4)]
lesion_patient_id(patients, s) ==
    np_choice(column(patients, "patient_id"), n_lesions, s)

\* datetime(2024, 1, 1) + timedelta(days=random.randint(0, hi)), n times,
\* from the random module's generator in state s.
date_list(hi, n, s) == [i \in 1..n |-> py_randint(0, hi, word(s, i))]

\* The lesion columns; eight are drawn from numpy's generator (state s),
\* detection_date from the random module's (state t).
lesion_data(patients, s, t) ==
    LET n == n_lesions
        at(k) == skip(s, k * n)
    IN <<
        \* lesion_id
        key_list("L", 4, n),
        \* patient_id
        lesion_patient_id(patients, at(0)),
        \* detection_date
        date_list(300, n, t),
        \* location_oral_cavity
        np_choice_p(<<"Tongue", "Buccal Mucosa", "Floor of Mouth",
                          "Palate", "Gingiva", "Lip">>,
                        <<30, 25, 15, 10, 12, 8>>, n, at(1)),
        \* initial_size_mm
        np_uniform(200, 2000, n, at(2)),
        \* color
        np_choice_p(<<"White", "Red", "Mixed", "Normal">>,
                              <<40, 30, 20, 10>>, n, at(3)),
        \* texture
        np_choice_p(<<"Smooth", "Rough", "Ulcerated", "Raised">>,
                                <<30, 30, 25, 15>>, n, at(4)),
        \* pain_level
        np_randint(0, 11, n, at(5)),
        \* ai_confidence_score
        np_uniform(40, 99, n, at(6)),
        \* lesion_type_detected
        np_choice_p(<<"Benign", "Suspicious", "High-Risk">>,
                        <<60, 25, 15>>, n, at(7))>>

\* The foreign key of the follow-up table.
followup_lesion_id_fresh(lesions, s) ==
    [i \in 1..n_followups |->
        "L" \o zfill(str(randint_np(1, n_followups + 1, word(s, i))), 4)]
followup_lesion_id_patients(lesions, s) ==
    np_choice(column(df_patients, "patient_id"), n_followups, s)
followup_lesion_id(lesions, s) ==
    np_choice(column(lesions, "lesion_id"), n_followups, s)

\* The follow-up columns; eight from numpy's generator (state s),
\* followup_date from the random module's (state t).
followup_data(lesions, s, t) ==
    LET n == n_followups
        at(k) == skip(s, k * n)
    IN <<
        \* followup_id
        key_list("F", 5, n),
        \* lesion_id
        followup_lesion_id(lesions, at(0)),
        \* followup_date
        date_list(365, n, t),
        \* size_mm
        np_uniform(100, 2500, n, at(1)),
        \* growth_rate_mm_per_month (the target variable)
        np_uniform(-200, 500, n, at(2)),
        \* color_change
        np_choice_p(<<0, 1>>, <<70, 30>>, n, at(3)),
        \* texture_change
        np_choice_p(<<0, 1>>, <<75, 25>>, n, at(4)),
        \* pain_change
        np_randint(-3, 4, n, at(5)),
        \* clinician_reviewed
        np_choice_p(<<0, 1>>, <<40, 60>>, n, at(6)),
        \* biopsy_recommended
        np_choice_p(<<0, 1>>, <<85, 15>>, n, at(7))>>

(***************************************************************************)
(* The merge stage.                                                        *)
(***************************************************************************)
isnull(cell) == Len(cell) = 0

\* left.merge(right, on=on, how=...): one output row per left row and
\* right row with an equal key, in the left rows' order (the matches of
\* one left row in the right rows' order); a left row without a match is
\* kept once, its right-hand columns NaN.  how='outer' adds the right
\* rows no left row matched.  A column name other than the key that
\* both tables have gets the suffixes _x and _y.  A KeyError is raised
\* when a table lacks the key.
merge_how(left, right, on, how) ==
    LET overlap == (Range(left.columns) \cap Range(right.columns)) \ {on}
        lname(c) == IF c \in overlap THEN c \o "_x" ELSE c
        rname(c) == IF c \in overlap THEN c \o "_y" ELSE c
        rcols == SelectSeq(right.columns, LAMBDA c : c # on)
        nl == Len(left.columns)
        cols == [k \in 1..nl |-> lname(left.columns[k])]
                \o [k \in 1..Len(rcols) |-> rname(rcols[k])]
        pos(c) == CHOOSE k \in 1..Len(cols) : cols[k] = c
        matches(l) == SelectIdx(len(right),
                                {j \in 1..len(right) : right.data[j][on] = l[on]})
        joined(l, j) ==
            [c \in Range(cols) |->
                IF pos(c) <= nl THEN l[left.columns[pos(c)]]
                ELSE IF j = 0 THEN << >>
                ELSE right.data[j][rcols[pos(c) - nl]]]
        rows_of(l) ==
            IF matches(l) = << >> THEN <<joined(l, 0)>>
            ELSE [m \in 1..Len(matches(l)) |-> joined(l, matches(l)[m])]
        unmatched ==
            SelectIdx(len(right),
                      {j \in 1..len(right) :
                          \A i \in 1..len(left) :
                              left.data[i][on] # right.data[j][on]})
        right_only(j) ==
            [c \in Range(cols) |->
                IF cols[pos(c)] = on THEN right.data[j][on]
                ELSE IF pos(c) <= nl THEN << >>
                ELSE right.data[j][rcols[pos(c) - nl]]]
        rows == Flatten([i \in 1..len(left) |-> rows_of(left.data[i])])
                \o (IF how = "outer"
                    THEN [u \in 1..Len(unmatched) |-> right_only(unmatched[u])]
                    ELSE << >>)
    IN IF on \notin Range(left.columns) \/ on \notin Range(right.columns)
       THEN [raised |-> TRUE, df |-> NoFrame]
       ELSE [raised |-> FALSE,
             df |-> [columns |-> cols,
                     index |-> [i \in 1..Len(rows) |-> i - 1],
                     data |-> rows]]

\* df_followups.merge(df_lesions, on='lesion_id', how='left') and
\* df_merged.merge(df_patients, on='patient_id', how='left')
merge_outer(left, right, on) == merge_how(left, right, on, "outer")
merge(left, right, on) == merge_how(left, right, on, "left")

\* df.isnull().sum().sum(): the NaN cells, counted column by column.
isnull_sum_sum(df) ==
    SeqSum([k \in 1..Len(df.columns) |->
              Cardinality({i \in 1..len(df) : isnull(df.data[i][df.columns[k]])})])

\* df.dropna(): the rows without any NaN, in order, under their labels.
dropna_all(df) ==
    LET keep == SelectIdx(len(df), {i \in 1..len(df) :
                    \E c \in Range(df.columns) : ~isnull(df.data[i][c])})
    IN [columns |-> df.columns,
        index |-> [k \in 1..Len(keep) |-> df.index[keep[k]]],
        data |-> [k \in 1..Len(keep) |-> df.data[keep[k]]]]
dropna(df) ==
    LET keep == SelectIdx(len(df), {i \in 1..len(df) :
                    \A c \in Range(df.columns) : ~isnull(df.data[i][c])})
    IN [columns |-> df.columns,
        index |-> [k \in 1..Len(keep) |-> df.index[keep[k]]],
        data |-> [k \in 1..Len(keep) |-> df.data[keep[k]]]]

(***************************************************************************)
(* Serialization.                                                          *)
(***************************************************************************)
IntColumns ==
    {"age", "betel_chewing", "tobacco_use", "family_history_cancer",
     "oral_hygiene_score", "rural_area", "pain_level", "color_change",
     "texture_change", "pain_change", "clinician_reviewed",
     "biopsy_recommended"}
FloatColumns ==
    {"initial_size_mm", "ai_confidence_score", "size_mm",
     "growth_rate_mm_per_month"}
DateColumns == {"detection_date", "followup_date"}

\* The days of the months of 2024 (a leap year) and of 2025.
month_days(year) ==
    <<31, IF year % 4 = 0 THEN 29 ELSE 28, 31, 30, 31, 30, 31, 31, 30, 31, 30, 31>>

\* datetime(2024, 1, 1) + timedelta(days=d), written as YYYY-MM-DD.
RECURSIVE date_from(_, _, _)
date_from(year, month, d) ==
    IF d < month_days(year)[month]
    THEN str(year) \o "-" \o zfill(str(month), 2) \o "-" \o zfill(str(d + 1), 2)
    ELSE IF month = 12 THEN date_from(year + 1, 1, d - month_days(year)[month])
    ELSE date_from(year, month + 1, d - month_days(year)[month])

\* One field of the file: NaN is the empty string; a fixed-point float
\* is written as its numerator.
field(c, cell) ==
    IF isnull(cell) THEN ""
    ELSE IF c \in IntColumns \cup FloatColumns THEN str(cell[1])
    ELSE IF c \in DateColumns THEN date_from(2024, 1, cell[1])
    ELSE cell[1]

NoFile == << >>

\* df.to_csv(path, index=...): the header line, then one line per row,
\* each line a sequence of fields; with index=True (pandas' default) the
\* index labels lead each line under an empty header field.
to_csv_index(df, index) ==
    LET lead(x) == IF index THEN <<x>> ELSE << >>
    IN <<lead("") \o df.columns>>
       \o [i \in 1..len(df) |->
             lead(str(df.index[i]))
             \o [k \in 1..Len(df.columns) |->
                   field(df.columns[k], df.data[i][df.columns[k]])]]

to_csv(df) == to_csv_index(df, FALSE)

(***************************************************************************)
(* The run of the script.                                                  *)
(***************************************************************************)
\* np.random.seed(x) and random.seed(x): the state is replaced.
np_random_seed(state, x, key) == init_by_seed(x, key)
random_seed_skipped(state, x, key) == state
random_seed(state, x, key) == init_by_seed(x, key)

\* A process starts with both generators seeded from the system's entropy.
Entropy == 0..MaxEntropy

Init ==
    /\ pc = "seed"
    /\ run = 1
    /\ np_key \in 0..(NumStates - 1)
    /\ py_key \in 0..(NumStates - 1)
    /\ np_state \in Entropy
    /\ py_state \in Entropy
    /\ df_patients = NoFrame
    /\ df_lesions = NoFrame
    /\ df_followups = NoFrame
    /\ df_merged = NoFrame
    /\ missing_count = 0
    /\ csv_file = NoFile
    /\ prev_file = NoFile
    /\ prev_tables = << >>

\* Lines 13-14.
Seed ==
    /\ pc = "seed"
    /\ np_state' = np_random_seed(np_state, NP_SEED, np_key)
    /\ py_state' = random_seed(py_state, PY_SEED, py_key)
    /\ pc' = "patients"
    /\ UNCHANGED <<run, np_key, py_key, df_patients, df_lesions, df_followups,
                   df_merged, missing_count, csv_file, prev_file, prev_tables>>

\* Lines 23-41: the demographics table.
GenPatients ==
    /\ pc = "patients"
    /\ LET r == DataFrame(patient_columns, patient_data(np_state))
       IN /\ df_patients' = r.df
          /\ pc' = IF r.raised THEN "crashed" ELSE "lesions"
    /\ np_state' = skip(np_state, 10 * n_patients)
    /\ UNCHANGED <<run, np_key, py_key, py_state, df_lesions, df_followups,
                   df_merged, missing_count, csv_file, prev_file, prev_tables>>

\* Lines 46-64: the lesion table.
GenLesions ==
    /\ pc = "lesions"
    /\ LET r == DataFrame(lesion_columns,
                          lesion_data(df_patients, np_state, py_state))
       IN /\ df_lesions' = r.df
          /\ pc' = IF r.raised THEN "crashed" ELSE "followups"
    /\ np_state' = skip(np_state, 8 * n_lesions)
    /\ py_state' = skip(py_state, n_lesions)
    /\ UNCHANGED <<run, np_key, py_key, df_patients, df_followups,
                   df_merged, missing_count, csv_file, prev_file, prev_tables>>

\* Lines 69-86: the follow-up table.
GenFollowups ==
    /\ pc = "followups"
    /\ LET r == DataFrame(followup_columns,
                          followup_data(df_lesions, np_state, py_state))
       IN /\ df_followups' = r.df
          /\ pc' = IF r.raised THEN "crashed" ELSE "merge1"
    /\ np_state' = skip(np_state, 8 * n_followups)
    /\ py_state' = skip(py_state, n_followups)
    /\ UNCHANGED <<run, np_key, py_key, df_patients, df_lesions,
                   df_merged, missing_count, csv_file, prev_file, prev_tables>>

\* Lines 96-98: follow-ups with lesions.
Merge1 ==
    /\ pc = "merge1"
    /\ LET r == merge(df_followups, df_lesions, "lesion_id")
       IN /\ df_merged' = r.df
          /\ pc' = IF r.raised THEN "crashed" ELSE "merge2"
    /\ UNCHANGED <<run, np_key, py_key, np_state, py_state, df_patients,
                   df_lesions, df_followups, missing_count, csv_file, prev_file,
                   prev_tables>>

\* Lines 101-103: the result with the patients.
Merge2 ==
    /\ pc = "merge2"
    /\ LET r == merge(df_merged, df_patients, "patient_id")
       IN /\ df_merged' = r.df
          /\ pc' = IF r.raised THEN "crashed" ELSE "quality"
    /\ UNCHANGED <<run, np_key, py_key, np_state, py_state, df_patients,
                   df_lesions, df_followups, missing_count, csv_file, prev_file,
                   prev_tables>>

\* Lines 106-113: count the missing values, drop their rows if any.
CheckQuality ==
    /\ pc = "quality"
    /\ missing_count' = isnull_sum_sum(df_merged)
    /\ df_merged' = IF missing_count' > 0 THEN dropna(df_merged) ELSE df_merged
    /\ pc' = "save"
    /\ UNCHANGED <<run, np_key, py_key, np_state, py_state, df_patients,
                   df_lesions, df_followups, csv_file, prev_file, prev_tables>>

\* Lines 118-119: write the file.  The path is relative and fixed;
\* whether its directory exists is the environment's: without it to_csv
\* raises OSError and the run ends, the file system untouched.
SaveCsv ==
    /\ pc = "save"
    /\ \E dir_exists \in BOOLEAN :
          /\ csv_file' = IF dir_exists THEN to_csv(df_merged) ELSE csv_file
          /\ pc' = IF dir_exists THEN "done" ELSE "crashed"
    /\ UNCHANGED <<run, np_key, py_key, np_state, py_state, df_patients,
                   df_lesions, df_followups, df_merged, missing_count, prev_file,
                   prev_tables>>

\* The script is run again: a new process, the file system as it was
\* left.  prev_file records what the file held when the run started and
\* prev_tables the three tables of the run before (history only: the
\* script reads neither).
Rerun ==
    /\ pc \in {"done", "crashed"}
    /\ run < MaxRuns
    /\ run' = run + 1
    /\ pc' = "seed"
    /\ np_state' \in Entropy
    /\ py_state' \in Entropy
    /\ df_patients' = NoFrame
    /\ df_lesions' = NoFrame
    /\ df_followups' = NoFrame
    /\ df_merged' = NoFrame
    /\ missing_count' = 0
    /\ prev_file' = csv_file
    /\ prev_tables' = <<df_patients, df_lesions, df_followups>>
    /\ UNCHANGED <<np_key, py_key, csv_file>>

Next ==
    \/ Seed
    \/ GenPatients
    \/ GenLesions
    \/ GenFollowups
    \/ Merge1
    \/ Merge2
    \/ CheckQuality
    \/ SaveCsv
    \/ Rerun

Spec == Init /\ [][Next]_vars

(***************************************************************************)
(* The null handling as a function of the merged table.  In a run of the   *)
(* script the merged table never holds a NaN, so lines 107-113 are also    *)
(* run here on merged tables in which any cells of two columns are NaN.    *)
(***************************************************************************)
NullColumns == {"pain_level", "age"}

\* The merged table the script builds from generator states s and t.
MergedTable(s, t) ==
    LET P == DataFrame(patient_columns, patient_data(s)).df
        s2 == skip(s, 10 * n_patients)
        L == DataFrame(lesion_columns, lesion_data(P, s2, t)).df
        F == DataFrame(followup_columns,
                       followup_data(L, skip(s2, 8 * n_lesions),
                                     skip(t, n_lesions))).df
    IN merge(merge(F, L, "lesion_id").df, P, "patient_id").df

with_nulls(df, mask) ==
    [df EXCEPT !.data =
        [i \in 1..len(df) |->
            [c \in Range(df.columns) |->
                IF <<i, c>> \in mask THEN << >> ELSE df.data[i][c]]]]

InitDropna ==
    /\ pc = "quality"
    /\ run = 1
    /\ np_key \in Entropy
    /\ py_key = 0
    /\ np_state = init_by_seed(NP_SEED, np_key)
    /\ py_state = init_by_seed(PY_SEED, py_key)
    /\ df_patients = NoFrame
    /\ df_lesions = NoFrame
    /\ df_followups = NoFrame
    /\ \E mask \in SUBSET ((1..n_followups) \X NullColumns) :
          df_merged = with_nulls(MergedTable(np_state, py_state), mask)
    /\ missing_count = 0
    /\ csv_file = NoFile
    /\ prev_file = NoFile
    /\ prev_tables = << >>

NextDropna ==
    \/ CheckQuality
    \/ SaveCsv

SpecDropna == InitDropna /\ [][NextDropna]_vars

(***************************************************************************)
(* Properties.                                                             *)
(***************************************************************************)
PatientKeys == {df_patients.data[j]["patient_id"][1] : j \in 1..len(df_patients)}
LesionKeys == {df_lesions.data[j]["lesion_id"][1] : j \in 1..len(df_lesions)}

\* C1: every patient_id of the lesion table is a key of the demographics
\* table, whatever was sampled.
C1_LesionPatientInPatients ==
    \A i \in 1..len(df_lesions) :
        /\ ~isnull(df_lesions.data[i]["patient_id"])
        /\ df_lesions.data[i]["patient_id"][1] \in PatientKeys

\* A lesion table in which one patient has several lesions and another none.
C1_Witness ==
    /\ len(df_lesions) = n_lesions
    /\ \E k \in PatientKeys :
          Cardinality({i \in 1..len(df_lesions) :
                          df_lesions.data[i]["patient_id"][1] = k}) >= 2
    /\ \E k \in PatientKeys :
          \A i \in 1..len(df_lesions) : df_lesions.data[i]["patient_id"][1] # k

\* C2: every lesion_id of the follow-up table is a key of the lesion
\* table, whatever was sampled.
C2_FollowupLesionInLesions ==
    \A i \in 1..len(df_followups) :
        /\ ~isnull(df_followups.data[i]["lesion_id"])
        /\ df_followups.data[i]["lesion_id"][1] \in LesionKeys

\* A follow-up table in which one lesion has several follow-ups and
\* another none.
C2_Witness ==
    /\ len(df_followups) = n_followups
    /\ \E k \in LesionKeys :
          Cardinality({i \in 1..len(df_followups) :
                          df_followups.data[i]["lesion_id"][1] = k}) >= 2
    /\ \E k \in LesionKeys :
          \A i \in 1..len(df_followups) :
              df_followups.data[i]["lesion_id"][1] # k

\* C3: the merged table has as many rows as the follow-up table after
\* the first join and after the second; after the null handling and in
\* the file it has at most as many, and fewer only if nulls were found.
C3_MergedRowCount ==
    /\ pc \in {"merge2", "quality"} => len(df_merged) = len(df_followups)
    /\ pc \in {"save", "done"} =>
          /\ len(df_merged) <= len(df_followups)
          /\ len(df_merged) < len(df_followups) => missing_count > 0
    /\ pc = "done" => Len(csv_file) = len(df_merged) + 1

\* The file is written with all follow-up rows, two of them for one lesion
\* and some lesion without a follow-up.
C3_Witness ==
    /\ pc = "done"
    /\ Len(csv_file) = n_followups + 1
    /\ C2_Witness

\* C4: before any null-drop the merged table has n_followups rows, none
\* with a null patient_id, lesion_id or growth_rate_mm_per_month.
C4_KeysNotNullBeforeDrop ==
    /\ pc = "merge2" =>
          /\ len(df_merged) = n_followups
          /\ \A i \in 1..len(df_merged) :
                \A c \in {"lesion_id", "patient_id", "growth_rate_mm_per_month"} :
                    df_merged.data[i][c] # << >>
    /\ pc = "quality" =>
          /\ len(df_merged) = n_followups
          /\ \A i \in 1..len(df_merged) :
                \A c \in {"lesion_id", "patient_id", "growth_rate_mm_per_month"} :
                    df_merged.data[i][c] # << >>

\* Both joins done, the nulls not yet counted, two patients in the rows.
C4_Witness ==
    /\ pc = "quality"
    /\ len(df_merged) = n_followups
    /\ \E i, j \in 1..len(df_merged) :
          df_merged.data[i]["patient_id"] # df_merged.data[j]["patient_id"]

\* C5: once built, the three tables have n_patients, n_lesions and
\* n_followups rows.
C5_TableRowCounts ==
    /\ pc \notin {"seed", "patients"} => len(df_patients) = n_patients
    /\ pc \notin {"seed", "patients", "lesions"} => len(df_lesions) = n_lesions
    /\ pc \notin {"seed", "patients", "lesions", "followups"} =>
          len(df_followups) = n_followups

C5_Witness ==
    /\ pc = "merge1"
    /\ len(df_patients) = n_patients
    /\ len(df_lesions) = n_lesions
    /\ len(df_followups) = n_followups

NullCells(df) ==
    {ic \in (1..len(df)) \X Range(df.columns) : df.data[ic[1]][ic[2]] = << >>}
CleanRows(df) ==
    {i \in 1..len(df) : \A c \in Range(df.columns) : df.data[i][c] # << >>}
NthClean(df, k) ==
    CHOOSE i \in CleanRows(df) :
        Cardinality({j \in CleanRows(df) : j < i}) = k - 1

\* C6: the null handling counts the nulls of the merged table; with none
\* the table is left as it is, otherwise exactly the rows without a null
\* are kept, in order; the file written afterwards has no empty field.
C6_NullHandling ==
    [][/\ pc = "quality" =>
            /\ missing_count' = Cardinality(NullCells(df_merged))
            /\ missing_count' = 0 => df_merged' = df_merged
            /\ missing_count' > 0 =>
                  /\ df_merged'.columns = df_merged.columns
                  /\ len(df_merged') = Cardinality(CleanRows(df_merged))
                  /\ \A k \in 1..len(df_merged') :
                        df_merged'.data[k] = df_merged.data[NthClean(df_merged, k)]
       /\ pc' = "done" =>
            /\ Len(csv_file') = len(df_merged) + 1
            /\ \A r \in 2..Len(csv_file') :
                  \A k \in 1..Len(csv_file'[r]) : csv_file'[r][k] # ""
      ]_vars

\* Nulls were found, more of them than rows were dropped (a row held two),
\* some rows were kept, and the file was written.
C6_Witness ==
    /\ pc = "done"
    /\ missing_count > n_followups - len(df_merged)
    /\ len(df_merged) > 0
    /\ len(df_merged) < n_followups
    /\ Len(csv_file) = len(df_merged) + 1

\* C7: a later run builds the three tables the run before it built and,
\* if it finds the file of an earlier run, writes the same file.
C7_RepeatedRunsSameFile ==
    /\ (run > 1 /\ pc \in {"merge1", "merge2", "quality", "save", "done"}) =>
          <<df_patients, df_lesions, df_followups>> = prev_tables
    /\ (pc = "done" /\ prev_file # NoFile) => csv_file = prev_file

\* The second run has written the file the first run wrote, the two
\* processes having started from different entropy.
C7_Witness ==
    /\ pc = "done"
    /\ run = 2
    /\ prev_file # NoFile
    /\ Len(csv_file) = n_followups + 1
    /\ csv_file = prev_file
    /\ <<df_patients, df_lesions, df_followups>> = prev_tables

ExpectedHeader ==
    <<"followup_id", "lesion_id", "followup_date", "size_mm",
      "growth_rate_mm_per_month", "color_change", "texture_change",
      "pain_change", "clinician_reviewed", "biopsy_recommended",
      "patient_id", "detection_date", "location_oral_cavity",
      "initial_size_mm", "color", "texture", "pain_level",
      "ai_confidence_score", "lesion_type_detected",
      "age", "gender", "location", "ethnicity", "betel_chewing",
      "tobacco_use", "alcohol_consumption", "family_history_cancer",
      "oral_hygiene_score", "rural_area">>

\* C8: the file's first line is the follow-up columns, the lesion columns
\* without lesion_id and the patient columns without patient_id, in that
\* order and under their own names; every line has one field per column
\* and starts with the followup_id (no index column).
C8_FileColumns ==
    pc = "done" =>
        /\ csv_file[1] = ExpectedHeader
        /\ \A r \in 2..Len(csv_file) :
              /\ Len(csv_file[r]) = Len(ExpectedHeader)
              /\ csv_file[r][1] = df_merged.data[r - 1]["followup_id"][1]
        /\ \A c \in {"lesion_id", "patient_id"} :
              Cardinality({k \in 1..Len(csv_file[1]) : csv_file[1][k] = c}) = 1
        /\ Cardinality(Range(csv_file[1])) = Len(csv_file[1])

C8_Witness ==
    /\ pc = "done"
    /\ Len(csv_file) = n_followups + 1
    /\ csv_file[1] = ExpectedHeader

\* C9: in every generated row age is in 18..79, oral_hygiene_score in
\* 1..10, pain_level in 0..10, pain_change in -3..3, detection_date 0 to
\* 300 days and followup_date 0 to 365 days after 2024-01-01, and
\* growth_rate_mm_per_month in [-2, 5].
C9_NumericBounds ==
    /\ \A i \in 1..len(df_patients) :
          /\ df_patients.data[i]["age"][1] \in 18..79
          /\ df_patients.data[i]["oral_hygiene_score"][1] \in 1..10
    /\ \A i \in 1..len(df_lesions) :
          /\ df_lesions.data[i]["pain_level"][1] \in 0..10
          /\ df_lesions.data[i]["detection_date"][1] \in 0..300
    /\ \A i \in 1..len(df_followups) :
          /\ df_followups.data[i]["pain_change"][1] \in -3..3
          /\ df_followups.data[i]["followup_date"][1] \in 0..365
          /\ df_followups.data[i]["growth_rate_mm_per_month"][1]
                >= -2 * 100 * WordRange
          /\ df_followups.data[i]["growth_rate_mm_per_month"][1]
                <= 5 * 100 * WordRange

\* The three tables built, with a column at its largest value and one at
\* its smallest.
C9_Witness ==
    /\ len(df_followups) = n_followups
    /\ \E i \in 1..len(df_patients) : df_patients.data[i]["age"][1] = 79
    /\ \E i \in 1..len(df_followups) :
          \/ df_followups.data[i]["pain_change"][1] = -3
          \/ df_followups.data[i]["growth_rate_mm_per_month"][1]
                = -2 * 100 * WordRange

\* Indices at which the number of digits changes, and the script's counts.
KeyProbe == {1, 2, 9, 10, 11, 99, 100, 101, 500, 800, 999, 1000, 1001,
             2000, 9999, 10000, 10001, 99999, 100000}

\* str(i).zfill(width) is different for different indices.
FormattingInjective ==
    \A i, j \in KeyProbe :
        i # j => /\ zfill(str(i), 4) # zfill(str(j), 4)
                 /\ zfill(str(i), 5) # zfill(str(j), 5)

\* C10: the keys of each table are P0001.., L0001.., F00001.. in row
\* order, pairwise distinct; the formatting maps distinct indices to
\* distinct ids; every followup_id is in exactly one line of the file.
C10_KeysUniqueSequential ==
    /\ \A i \in 1..len(df_patients) :
          /\ df_patients.data[i]["patient_id"][1] = "P000" \o Digit[i + 1]
          /\ \A j \in 1..len(df_patients) :
                i # j => df_patients.data[i]["patient_id"]
                            # df_patients.data[j]["patient_id"]
    /\ \A i \in 1..len(df_lesions) :
          /\ df_lesions.data[i]["lesion_id"][1] = "L000" \o Digit[i + 1]
          /\ \A j \in 1..len(df_lesions) :
                i # j => df_lesions.data[i]["lesion_id"]
                            # df_lesions.data[j]["lesion_id"]
    /\ \A i \in 1..len(df_followups) :
          /\ df_followups.data[i]["followup_id"][1] = "F0000" \o Digit[i + 1]
          /\ \A j \in 1..len(df_followups) :
                i # j => df_followups.data[i]["followup_id"]
                            # df_followups.data[j]["followup_id"]
    /\ FormattingInjective
    /\ pc = "done" =>
          \A i \in 1..n_followups :
              Cardinality({r \in 2..Len(csv_file) :
                              csv_file[r][1] = "F0000" \o Digit[i + 1]}) = 1

C10_Witness ==
    /\ pc = "done"
    /\ len(df_patients) = n_patients
    /\ len(df_lesions) = n_lesions
    /\ Len(csv_file) = n_followups + 1
    /\ csv_file[n_followups + 1][1] = "F0000" \o Digit[n_followups + 1]

====
